---- MODULE Spec2Model ----
(***************************************************************************)
(* Model of the JSON-RPC `Server` wrapper of src/src/server.rs: a Server   *)
(* owns a raw server, next_request pulls one raw request and wraps it in   *)
(* a ServerRq, and the ServerRq's accessors and respond act on that raw    *)
(* request.                                                                *)
(***************************************************************************)
EXTENDS Integers, Sequences, FiniteSets, TLC

(* ------------------------------ bounds --------------------------------- *)

\* Number of raw requests the transport delivers in one behaviour.
MaxEnvelopes == 2

\* Longest batch the transport delivers.
MaxBatch == 2

(* ------------------------------ values --------------------------------- *)

\* types::Id::Null
Null == "null"

\* types::Id values the client uses.
Ids == {Null, "1"}

Methods == {"ping"}

ParamValues == {"[]"}

\* Placeholder of a field a Call variant does not carry.
Absent == "-"

MethodCall(id, method, params) ==
    [kind |-> "MethodCall", id |-> id, method |-> method, params |-> params]

Notification(method, params) ==
    [kind |-> "Notification", id |-> Absent, method |-> method, params |-> params]

Invalid(id) ==
    [kind |-> "Invalid", id |-> id, method |-> Absent, params |-> Absent]

\* types::Call
Calls ==
    {MethodCall(i, m, p) : i \in Ids, m \in Methods, p \in ParamValues}
    \cup {Notification(m, p) : m \in Methods, p \in ParamValues}
    \cup {Invalid(i) : i \in Ids}

Single(call) == [shape |-> "Single", calls |-> <<call>>]

Batch(calls) == [shape |-> "Batch", calls |-> calls]

\* types::Request, as the raw server hands it out.
Requests ==
    {Single(c) : c \in Calls}
    \cup UNION {{Batch(cs) : cs \in [1..n -> Calls]} : n \in 1..MaxBatch}

\* The JSON-RPC standard error codes.
StandardCodes == {-32700, -32600, -32601, -32602, -32603}

RespOk(v) == [tag |-> "Ok", value |-> v, code |-> 0]

RespErr(c) == [tag |-> "Err", value |-> Absent, code |-> c]

\* Result<JsonValue, Error> arguments of respond.
Responses == {RespOk("pong"), RespErr(-32601)}

\* types::Output::from(result, id, version)
OutputFrom(response, id) ==
    IF response.tag = "Ok"
    THEN [kind |-> "Success", id |-> id, result |-> response.value, code |-> 0]
    ELSE [kind |-> "Failure", id |-> id, result |-> Absent, code |-> response.code]

\* The output wrapped as a one-element batch array.
ResponseSingle_AsBatch(output) == [shape |-> "Batch", outputs |-> <<output>>]

\* types::Response::Single(output)
ResponseSingle(output) == [shape |-> "Single", outputs |-> <<output>>]

\* Option<T>
None == <<>>

Some(x) == <<x>>

(* ------------------------------- state --------------------------------- *)

VARIABLES
    serverLive, \* the Server has not been dropped
    rawClosed,  \* the raw server's stream has ended
    rawLast,    \* outcome of the last raw.next_request(): "none", "ok", "fault", "closed"
    pulled,     \* raw requests handed out by the raw server, in order
    yielded,    \* calls for which next_request returned a ServerRq, in order
    handle,     \* the live ServerRq: None or Some(index into pulled)
    wire,       \* calls to RawServerRq::finish, in order
    answered,   \* indices of raw requests whose ServerRq was consumed by respond
    dropped,    \* indices of raw requests whose ServerRq was dropped unanswered
    panicked,   \* the task hit unimplemented!() / unreachable!()
    ret         \* what the last operation returned to its caller

vars == <<serverLive, rawClosed, rawLast, pulled, yielded, handle, wire, answered, dropped, panicked, ret>>

NoRet == [op |-> "none", res |-> "none", val |-> <<>>, env |-> 0]

Init ==
    /\ serverLive = TRUE
    /\ rawClosed = FALSE
    /\ rawLast = "none"
    /\ pulled = <<>>
    /\ yielded = <<>>
    /\ handle = None
    /\ wire = <<>>
    /\ answered = {}
    /\ dropped = {}
    /\ panicked = FALSE
    /\ ret = NoRet

\* The raw request a live ServerRq wraps (ServerRq::inner).
inner == pulled[handle[1]]

(* ----------------------------- operations ------------------------------ *)

\* next_request unwrapping the raw server's result instead of propagating it.
NextRequestErr_Unwrap(cause) ==
    /\ rawLast' = cause
    /\ rawClosed' = (rawClosed \/ cause = "closed")
    /\ panicked' = TRUE
    /\ UNCHANGED <<serverLive, pulled, yielded, handle, wire, answered, dropped, ret>>

\* Server::next_request, on the raw server returning Err(()).
NextRequestErr(cause) ==
    /\ rawLast' = cause
    /\ rawClosed' = (rawClosed \/ cause = "closed")
    /\ ret' = [op |-> "next_request", res |-> "Err", val |-> <<"()">>, env |-> 0]
    /\ UNCHANGED <<serverLive, pulled, yielded, handle, wire, answered, dropped, panicked>>

\* Server::next_request, on the raw server returning Ok(request).
NextRequestOk(request) ==
    /\ rawLast' = "ok"
    /\ pulled' = Append(pulled, request)
    /\ IF request.shape = "Single"
       THEN /\ handle' = Some(Len(pulled) + 1)
            /\ yielded' = Append(yielded, request.calls[1])
            /\ ret' = [op |-> "next_request", res |-> "Ok", val |-> <<>>,
                       env |-> Len(pulled) + 1]
            /\ UNCHANGED panicked
       ELSE /\ panicked' = TRUE
            /\ UNCHANGED <<handle, yielded, ret>>
    /\ UNCHANGED <<serverLive, rawClosed, wire, answered, dropped>>

\* next_request callable while the ServerRq it returned earlier is still live.
NextRequest_NoBorrow ==
    /\ ~panicked
    /\ serverLive
    /\ \/ /\ ~rawClosed
          /\ Len(pulled) < MaxEnvelopes
          /\ \E request \in Requests : NextRequestOk(request)
       \/ /\ ~rawClosed
          /\ NextRequestErr("fault")
       \/ NextRequestErr("closed")

\* Server::next_request
NextRequest ==
    /\ ~panicked
    /\ serverLive
    /\ handle = None
    /\ \/ /\ ~rawClosed
          /\ Len(pulled) < MaxEnvelopes
          /\ \E request \in Requests : NextRequestOk(request)
       \/ /\ ~rawClosed
          /\ NextRequestErr("fault")
       \/ NextRequestErr("closed")

\* ServerRq::call
call(request) == request.calls[1]

\* ServerRq::call reaches unreachable!() on a Batch.
callPanics(request) == request.shape = "Batch"

\* id() treating an Invalid call like a Notification.
id_InvalidIsNone(request) ==
    CASE call(request).kind = "MethodCall" -> Some(call(request).id)
      [] call(request).kind = "Notification" -> None
      [] call(request).kind = "Invalid" -> None

\* ServerRq::id
id(request) ==
    CASE call(request).kind = "MethodCall" -> Some(call(request).id)
      [] call(request).kind = "Notification" -> None
      [] call(request).kind = "Invalid" -> Some(call(request).id)

\* ServerRq::id, called by the application
CallId ==
    /\ ~panicked
    /\ handle # None
    /\ IF callPanics(inner)
       THEN /\ panicked' = TRUE
            /\ UNCHANGED ret
       ELSE /\ ret' = [op |-> "id", res |-> "Value", val |-> id(inner), env |-> handle[1]]
            /\ UNCHANGED panicked
    /\ UNCHANGED <<serverLive, rawClosed, rawLast, pulled, yielded, handle, wire, answered, dropped>>

\* ServerRq::method
CallMethod ==
    /\ ~panicked
    /\ handle # None
    /\ IF callPanics(inner) \/ call(inner).kind = "Invalid"
       THEN /\ panicked' = TRUE
            /\ UNCHANGED ret
       ELSE /\ ret' = [op |-> "method", res |-> "Value",
                       val |-> <<call(inner).method>>, env |-> handle[1]]
            /\ UNCHANGED panicked
    /\ UNCHANGED <<serverLive, rawClosed, rawLast, pulled, yielded, handle, wire, answered, dropped>>

\* params() giving the handle up after reading it.
CallParams_ConsumesHandle ==
    /\ ~panicked
    /\ handle # None
    /\ IF callPanics(inner) \/ call(inner).kind = "Invalid"
       THEN /\ panicked' = TRUE
            /\ UNCHANGED <<ret, handle>>
       ELSE /\ ret' = [op |-> "params", res |-> "Value",
                       val |-> <<call(inner).params>>, env |-> handle[1]]
            /\ handle' = None
            /\ UNCHANGED panicked
    /\ UNCHANGED <<serverLive, rawClosed, rawLast, pulled, yielded, wire, answered, dropped>>

\* ServerRq::params
CallParams ==
    /\ ~panicked
    /\ handle # None
    /\ IF callPanics(inner) \/ call(inner).kind = "Invalid"
       THEN /\ panicked' = TRUE
            /\ UNCHANGED ret
       ELSE /\ ret' = [op |-> "params", res |-> "Value",
                       val |-> <<call(inner).params>>, env |-> handle[1]]
            /\ UNCHANGED panicked
    /\ UNCHANGED <<serverLive, rawClosed, rawLast, pulled, yielded, handle, wire, answered, dropped>>

\* respond discarding the result of finish.
Respond_SwallowsIoError ==
    /\ ~panicked
    /\ handle # None
    /\ \E response \in Responses, ioOk \in BOOLEAN :
         LET output == OutputFrom(response, Null)
         IN /\ wire' = Append(wire, [env |-> handle[1],
                                     resp |-> ResponseSingle(output),
                                     arg |-> response,
                                     ok |-> ioOk])
            /\ ret' = [op |-> "respond", res |-> "Ok", val |-> <<>>,
                       env |-> handle[1]]
    /\ handle' = None
    /\ answered' = answered \cup {handle[1]}
    /\ UNCHANGED <<serverLive, rawClosed, rawLast, pulled, yielded, dropped, panicked>>

\* respond borrowing the handle instead of consuming it.
Respond_KeepsHandle ==
    /\ ~panicked
    /\ handle # None
    /\ \E response \in Responses, ioOk \in BOOLEAN :
         LET output == OutputFrom(response, Null)
         IN /\ wire' = Append(wire, [env |-> handle[1],
                                     resp |-> ResponseSingle(output),
                                     arg |-> response,
                                     ok |-> ioOk])
            /\ ret' = [op |-> "respond", res |-> IF ioOk THEN "Ok" ELSE "Err",
                       val |-> IF ioOk THEN <<>> ELSE <<"io::Error">>,
                       env |-> handle[1]]
    /\ answered' = answered \cup {handle[1]}
    /\ UNCHANGED <<serverLive, rawClosed, rawLast, pulled, yielded, handle, dropped, panicked>>

\* ServerRq::respond
Respond ==
    /\ ~panicked
    /\ handle # None
    /\ \E response \in Responses, ioOk \in BOOLEAN :
         LET output == OutputFrom(response, Null)
         IN /\ wire' = Append(wire, [env |-> handle[1],
                                     resp |-> ResponseSingle(output),
                                     arg |-> response,
                                     ok |-> ioOk])
            /\ ret' = [op |-> "respond", res |-> IF ioOk THEN "Ok" ELSE "Err",
                       val |-> IF ioOk THEN <<>> ELSE <<"io::Error">>,
                       env |-> handle[1]]
    /\ handle' = None
    /\ answered' = answered \cup {handle[1]}
    /\ UNCHANGED <<serverLive, rawClosed, rawLast, pulled, yielded, dropped, panicked>>

\* A drop that answers the request with an error output on the way out.
DropRq_Abandon ==
    /\ ~panicked
    /\ handle # None
    /\ handle' = None
    /\ dropped' = dropped \cup {handle[1]}
    /\ wire' = Append(wire, [env |-> handle[1],
                             resp |-> ResponseSingle(OutputFrom(RespErr(-32603), Null)),
                             arg |-> RespErr(-32603),
                             ok |-> TRUE])
    /\ ret' = [op |-> "drop", res |-> "none", val |-> <<>>, env |-> handle[1]]
    /\ UNCHANGED <<serverLive, rawClosed, rawLast, pulled, yielded, answered, panicked>>

\* A ServerRq going out of scope: the struct has no Drop implementation.
DropRq ==
    /\ ~panicked
    /\ handle # None
    /\ handle' = None
    /\ dropped' = dropped \cup {handle[1]}
    /\ ret' = [op |-> "drop", res |-> "none", val |-> <<>>, env |-> handle[1]]
    /\ UNCHANGED <<serverLive, rawClosed, rawLast, pulled, yielded, wire, answered, panicked>>

\* The Server going out of scope, which the borrow held by a live ServerRq
\* forbids.
DropServer ==
    /\ ~panicked
    /\ serverLive
    /\ handle = None
    /\ serverLive' = FALSE
    /\ ret' = [op |-> "drop_server", res |-> "none", val |-> <<>>, env |-> 0]
    /\ UNCHANGED <<rawClosed, rawLast, pulled, yielded, handle, wire, answered, dropped, panicked>>

Next ==
    \/ NextRequest
    \/ CallId
    \/ CallMethod
    \/ CallParams
    \/ Respond
    \/ DropRq
    \/ DropServer

Spec == Init /\ [][Next]_vars

\* Every operation that can run does run.
FairSpec == Spec /\ WF_vars(Next)

TypeOK ==
    /\ serverLive \in BOOLEAN
    /\ rawClosed \in BOOLEAN
    /\ rawLast \in {"none", "ok", "fault", "closed"}
    /\ Len(pulled) <= MaxEnvelopes
    /\ \A i \in 1..Len(pulled) : pulled[i] \in Requests
    /\ handle \in {None} \cup {Some(i) : i \in 1..Len(pulled)}
    /\ dropped \subseteq 1..Len(pulled)
    /\ answered \subseteq 1..Len(pulled)
    /\ panicked \in BOOLEAN

(* --------------------------- derived notions --------------------------- *)

Envelopes == 1..Len(pulled)

\* The entries of the wire log that belong to raw request e.
WritesFor(e) == {k \in 1..Len(wire) : wire[k].env = e}

\* Positions of the calls of raw request e that are not notifications.
NonNotifications(e) ==
    {i \in 1..Len(pulled[e].calls) : pulled[e].calls[i].kind # "Notification"}

\* Non-notification calls of raw request e that nobody has answered yet.
Outstanding(e) ==
    IF pulled[e].shape = "Single" /\ e \in answered
    THEN 0
    ELSE Cardinality(NonNotifications(e))

RECURSIVE Flat(_)
\* The calls of a sequence of raw requests, in order.
Flat(rqs) ==
    IF rqs = <<>> THEN <<>> ELSE Head(rqs).calls \o Flat(Tail(rqs))

IsPrefix(s, t) == Len(s) <= Len(t) /\ s = SubSeq(t, 1, Len(s))

\* The ids of the non-notification calls of a sequence of calls, in order.
AnswerIds(cs) ==
    LET keep == SelectSeq(cs, LAMBDA c : c.kind # "Notification")
    IN [i \in 1..Len(keep) |-> keep[i].id]

(* ------------------------------- claims -------------------------------- *)

\* C1: for every raw request, finish is called at most once, and it has been
\* called exactly when the request has non-notification calls and none of
\* them is still unanswered.
C1_FlushOnceIffResolved ==
    \A e \in Envelopes :
        /\ Cardinality(WritesFor(e)) <= 1
        /\ (Cardinality(WritesFor(e)) = 1)
             <=> (NonNotifications(e) # {} /\ Outstanding(e) = 0)

\* C2: the output written for a single MethodCall carries the id of that
\* call, as a Success holding the value of respond(Ok(v)) or as a Failure
\* holding the error of respond(Err(e)).
C2_OutputEchoesId ==
    \A k \in 1..Len(wire) :
        LET rq == pulled[wire[k].env]
            out == wire[k].resp.outputs[1]
        IN (rq.shape = "Single" /\ rq.calls[1].kind = "MethodCall") =>
              /\ out.id = rq.calls[1].id
              /\ wire[k].arg.tag = "Ok" =>
                    (out.kind = "Success" /\ out.result = wire[k].arg.value)
              /\ wire[k].arg.tag = "Err" =>
                    (out.kind = "Failure" /\ out.code = wire[k].arg.code)

\* C3: a Batch is split into handles (its first call is handed out by the
\* next_request that pulled it), a batch of notifications only is never
\* written to, and what is written for a batch is one Batch response with
\* one output per non-notification call, in the order of the calls.
C3_BatchSplitAndRecomposed ==
    \A e \in Envelopes :
        pulled[e].shape = "Batch" =>
            /\ Len(yielded) > Len(Flat(SubSeq(pulled, 1, e - 1)))
            /\ NonNotifications(e) = {} => WritesFor(e) = {}
            /\ \A k \in WritesFor(e) :
                  /\ wire[k].resp.shape = "Batch"
                  /\ [i \in 1..Len(wire[k].resp.outputs) |-> wire[k].resp.outputs[i].id]
                        = AnswerIds(pulled[e].calls)

\* C4: id() returns None exactly for a Notification, Some(id) for a
\* MethodCall and Some(the carried id) for an Invalid call.
C4_IdNoneIffNotification ==
    ret.op = "id" =>
        LET c == pulled[ret.env].calls[1]
        IN /\ (ret.val = None) <=> (c.kind = "Notification")
           /\ c.kind = "MethodCall" => ret.val = Some(c.id)
           /\ c.kind = "Invalid" => ret.val = Some(c.id)

\* C4 witness: id() was called on an Invalid call carrying the Null id.
C4_Witness ==
    /\ ret.op = "id"
    /\ pulled[ret.env].calls[1] = Invalid(Null)
    /\ ret.val = Some(Null)

\* C5: respond on the handle of a Notification fails with NotRespondable
\* and nothing is written for it.
C5_NotificationNotRespondable ==
    /\ \A k \in 1..Len(wire) :
          pulled[wire[k].env].calls[1].kind # "Notification"
    /\ (ret.op = "respond" /\ pulled[ret.env].calls[1].kind = "Notification")
          => (ret.res = "Err" /\ ret.val = <<"NotRespondable">>)

C7_YieldsEveryCallInOrder ==
    /\ IsPrefix(yielded, Flat(pulled))
    /\ pulled # <<>> =>
          Len(yielded) > Len(Flat(SubSeq(pulled, 1, Len(pulled) - 1)))

\* C8: a respond writes to the transport exactly when it answers the last
\* outstanding non-notification call of its raw request.
C8_WriteOnlyOnLastCompletion ==
    [][ answered' # answered =>
          \A e \in answered' \ answered :
              (wire' # wire) <=> (Outstanding(e) > 0 /\ Outstanding(e)' = 0) ]_vars

C10_InvalidNeverCrashes ==
    /\ (handle # None /\ call(inner).kind = "Invalid") => ~panicked
    /\ \A k \in 1..Len(wire) :
          pulled[wire[k].env].calls[1].kind = "Invalid" =>
              /\ wire[k].resp.outputs[1].kind = "Failure"
              /\ wire[k].resp.outputs[1].code \in StandardCodes


\* C11: when the write made by respond fails, that respond returns the
\* io::Error to its caller, and until the next request is pulled the task
\* has not crashed, no handle is left and, while the transport is open,
\* next_request can hand out the next request.
C11_IoErrorReturnedStreamGoesOn ==
    /\ \A k \in 1..Len(wire) :
          (k = Len(wire) /\ ret.op = "respond" /\ ~wire[k].ok) =>
              /\ ret.res = "Err"
              /\ ret.val = <<"io::Error">>
              /\ ret.env = wire[k].env
    /\ (ret.op = "respond" /\ ret.res = "Err" /\ Len(pulled) = ret.env) =>
          /\ ~panicked
          /\ handle = None
          /\ (~rawClosed /\ Len(pulled) < MaxEnvelopes) =>
                ENABLED (NextRequest /\ handle' # None)

\* C11 witness: a write failed and a later request has been handed out.
C11_Witness ==
    /\ wire # <<>>
    /\ ~wire[1].ok
    /\ handle # None
    /\ handle[1] > wire[1].env


\* C12: the handles of one Batch all exist (the task does not crash on the
\* batch, and each of its calls gets a handle), and however they are
\* completed the batch is written exactly once, by the completion that
\* leaves no non-notification call outstanding.
C12_BatchHandlesCompleteOnce ==
    \A e \in Envelopes :
        pulled[e].shape = "Batch" =>
            /\ ~panicked
            /\ Cardinality(WritesFor(e)) <= 1
            /\ (NonNotifications(e) # {} /\ Outstanding(e) = 0)
                  => Cardinality(WritesFor(e)) = 1

\* C13: a request with an id whose handle was set aside can be retrieved
\* again: while no other handle is live, some operation gives back a handle
\* for that same raw request.
C13_SetAsideRetrievableById ==
    \A e \in dropped :
        (id(pulled[e]) # None /\ handle = None /\ ~panicked) =>
            ENABLED (Next /\ handle' = Some(e))

\* C14: the handle of a MethodCall can be turned into a subscription by an
\* operation that consumes the handle and writes one acknowledgement.
C14_RequestBecomesSubscription ==
    (handle # None /\ ~panicked /\ call(inner).kind = "MethodCall") =>
        ENABLED (/\ Next
                 /\ ret'.op = "into_subscription"
                 /\ handle' = None
                 /\ Len(wire') = Len(wire) + 1)


\* C15: what respond writes for a Single raw request is a Single response
\* holding exactly one output, a Success with the value for Ok(v) and a
\* Failure with the error for Err(e); never a batch and never empty.
C15_SingleResponseShape ==
    \A k \in 1..Len(wire) :
        pulled[wire[k].env].shape = "Single" =>
            /\ wire[k].resp.shape = "Single"
            /\ Len(wire[k].resp.outputs) = 1
            /\ wire[k].arg.tag = "Ok" =>
                  /\ wire[k].resp.outputs[1].kind = "Success"
                  /\ wire[k].resp.outputs[1].result = wire[k].arg.value
            /\ wire[k].arg.tag = "Err" =>
                  /\ wire[k].resp.outputs[1].kind = "Failure"
                  /\ wire[k].resp.outputs[1].code = wire[k].arg.code

\* C15 witness: a Single MethodCall was answered with an error and a Single
\* response holding a Failure was written.
C15_Witness ==
    \E k \in 1..Len(wire) :
        /\ pulled[wire[k].env] \in {Single(MethodCall(i, m, p)) :
                                      i \in Ids, m \in Methods, p \in ParamValues}
        /\ wire[k].arg.tag = "Err"
        /\ wire[k].resp.shape = "Single"
        /\ wire[k].resp.outputs[1].kind = "Failure"

\* C16: a call of id(), method() or params() on the handle of a MethodCall
\* or a Notification changes nothing but the value returned: the handle
\* stays live, nothing is written, no request is answered, dropped or
\* pulled, the task does not crash, and the value returned is the one the
\* call carries, so that repeated calls return the same value.
C16_AccessorsLeaveStateAlone ==
    [][ (/\ handle # None
         /\ call(inner).kind \in {"MethodCall", "Notification"}
         /\ (CallId \/ CallMethod \/ CallParams))
        => /\ UNCHANGED <<handle, wire, answered, dropped, pulled, yielded,
                          rawClosed, rawLast, panicked>>
           /\ ~panicked'
           /\ ret'.env = handle[1]
           /\ ret'.op = "id" => ret'.val = id(inner)
           /\ ret'.op = "method" => ret'.val = <<call(inner).method>>
           /\ ret'.op = "params" => ret'.val = <<call(inner).params>>
           /\ (ret.op = ret'.op /\ ret.env = ret'.env) => ret'.val = ret.val ]_vars

\* C16 witness: params() has returned on the handle of a Notification and
\* the handle is still live.
C16_Witness ==
    /\ ret.op = "params"
    /\ handle = Some(ret.env)
    /\ call(inner).kind = "Notification"
    /\ ~panicked

\* C17: a raw request is written to at most once, and the handle of a
\* request that has been responded to is gone: no handle is live for it.
C17_HandleSingleUse ==
    \A e \in Envelopes :
        /\ Cardinality(WritesFor(e)) <= 1
        /\ e \in answered => handle # Some(e)

\* C17 witness: the first request has been responded to and the handle of
\* a later request is live.
C17_Witness ==
    /\ 1 \in answered
    /\ Cardinality(WritesFor(1)) = 1
    /\ handle # None
    /\ handle[1] > 1


\* Handles handed out by next_request that were neither consumed by respond
\* nor dropped.
LiveHandles == Len(yielded) - Cardinality(answered \cup dropped)

\* C18: at most one handle handed out by next_request is unconsumed at any
\* time; while one is, the Server still exists, next_request cannot start
\* and the Server cannot be dropped.
C18_HandleBorrowsServer ==
    /\ LiveHandles \in {0, 1}
    /\ (LiveHandles = 1) <=> (handle # None)
    /\ handle # None =>
          /\ serverLive
          /\ ~ENABLED NextRequest
          /\ ~ENABLED DropServer

\* C18 witness: a second handle is live after the first one was given up.
C18_Witness ==
    /\ handle # None
    /\ Len(yielded) >= 2
    /\ LiveHandles = 1
    /\ serverLive

====
